---- MODULE Spec2Model ----
(***************************************************************************)
(* Model of the voice-assistant front end (component App): the session     *)
(* lifecycle, the reconnect timer, the playback scheduler and the          *)
(* transcript aggregator.                                                  *)
(*                                                                         *)
(* Every startSession call is a "call" with its own closure: the values    *)
(* of voiceState, hasInteracted and needsApiKey of the render in which     *)
(* that startSession function (and the handleAutoReconnect it refers to)   *)
(* was created by useCallback.  A render follows every handler.            *)
(***************************************************************************)
EXTENDS Integers, Sequences, FiniteSets, Bags, TLC

\* ---------------------------------------------------------------- bounds
MaxCalls == 2
MaxOpens == 2
MaxNodes == 2
MaxTime == 3
MaxText == 2
MaxFrames == 2
MaxDialogs == 2
MaxCaught == 1

Calls == 1..MaxCalls
Nodes == 1..MaxNodes

\* ------------------------------------------------------ program constants
HistoryLimit == 6
WelcomeText == "Neural link established. Welcome to Horizon OS. I am your spatial assistant."

VARIABLES
    voiceState,            \* useState<VoiceState>
    transcriptionHistory,  \* useState<TranscriptionEntry[]>
    currentUserText,       \* useState('') live preview
    currentAssistantText,  \* useState('') live preview
    errorMessage,          \* useState<string | null>
    hasInteracted,         \* useState(false)
    needsApiKey,           \* useState(false)
    sessionRef,            \* 0 (null) or the call whose session promise it holds
    audioContextsRef,      \* 0 (null) or the call whose contexts it holds
    nextStartTimeRef,      \* timeline cursor
    sourcesRef,            \* set of active source nodes
    reconnectTimeoutRef,   \* 0 (null) or the id of the last reconnect timer
    userTextRef,           \* pending user transcript
    assistantTextRef,      \* pending assistant transcript
    startSession,          \* the closure of the startSession of the last render
    calls,                 \* the startSession calls and their sessions
    nodes,                 \* the AudioBufferSourceNodes created by onmessage
    timers,                \* the pending reconnect timers of the browser
    keyDialog,             \* bag of the closures of the handleKeySelection calls awaiting openSelectKey
    env,                   \* the page's environment: window.aistudio, process.env.API_KEY
    mounted,               \* whether App is mounted
    caught,                \* the exceptions the catch of startSession has handled
    lastEvent              \* history variable: the handler that ran last

uiVars == <<voiceState, errorMessage, hasInteracted, needsApiKey, startSession>>
textVars == <<transcriptionHistory, currentUserText, currentAssistantText, userTextRef, assistantTextRef>>
audioVars == <<audioContextsRef, nextStartTimeRef, sourcesRef, nodes>>
vars == <<voiceState, transcriptionHistory, currentUserText, currentAssistantText,
          errorMessage, hasInteracted, needsApiKey, sessionRef, audioContextsRef,
          nextStartTimeRef, sourcesRef, reconnectTimeoutRef,
          userTextRef, assistantTextRef, startSession, calls, nodes, timers,
          keyDialog, env, mounted, caught, lastEvent>>

\* ------------------------------------------------------------ data shapes
AllFalse == [isListening |-> FALSE, isSpeaking |-> FALSE, isConnected |-> FALSE, isConnecting |-> FALSE]

NoCall ==
    [pc |-> "unused", cb |-> [isConnecting |-> FALSE, isConnected |-> FALSE,
                              hasInteracted |-> FALSE, needsApiKey |-> FALSE],
     closeReq |-> FALSE, inputCtx |-> "none", outputCtx |-> "none", currentTime |-> 0,
     mic |-> "none", graph |-> "none", captured |-> 0, deferred |-> <<>>, sent |-> <<>>]

NoNode == [state |-> "none", call |-> 0, start |-> 0, begin |-> 0, dur |-> 0, interrupted |-> FALSE,
           notify |-> FALSE]

Max(a, b) == IF a >= b THEN a ELSE b

\* JavaScript Array.prototype.slice(-k)
SliceLast(s, k) == IF Len(s) <= k THEN s ELSE SubSeq(s, Len(s) - k + 1, Len(s))

\* outputCtx.currentTime of a call: 0 at the creation of the context, it
\* advances while the context runs and freezes when the context is closed
CurrentTime(c) == c.currentTime

FreshCall == IF \E a \in Calls : calls[a].pc = "unused"
             THEN CHOOSE a \in Calls : calls[a].pc = "unused" /\ \A b \in Calls : b < a => calls[b].pc # "unused"
             ELSE 0
FreshNode == IF \E n \in Nodes : nodes[n].state = "none"
             THEN CHOOSE n \in Nodes : nodes[n].state = "none" /\ \A m \in Nodes : m < n => nodes[m].state # "none"
             ELSE 0

\* A call that has returned or whose session is closed, that no ref and no
\* node refers to and that holds no running context and no microphone stream
\* can do nothing any more: its slot is given back.  A call that still holds
\* a running context or a live stream keeps its slot, so that MaxCalls bounds
\* the calls that hold a resource or can still act.
Finished(c, a, sref, aref, n) ==
    /\ c[a].pc \in {"aborted", "closed"}
    /\ sref # a /\ aref # a
    /\ \A i \in Nodes : n[i].call = a => n[i].state \in {"none", "ended"}
    /\ c[a].inputCtx # "running" /\ c[a].outputCtx # "running"
    /\ c[a].mic # "live"

\* The clock of an output context is read by the onmessage of its call and
\* decides when its nodes end; nothing reads it once the call has left the
\* connection (or returned) and none of its nodes waits to be scheduled or
\* plays on the running context.
ClockRead(c, a, n) ==
    \/ c[a].pc \in {"keycheck", "resume", "mic", "pending", "opened", "open"}
    \/ \E i \in Nodes : /\ n[i].call = a
                         /\ \/ n[i].state = "decoding"
                            \/ n[i].state = "active" /\ c[a].outputCtx = "running"

\* A call that has returned or whose session is closed runs no handler any
\* more: nothing reads its closure and its close request, what is left of it
\* are its contexts, its stream and its capture graph.
Returned(c) == [c EXCEPT !.cb = NoCall.cb, !.closeReq = FALSE]

\* the calls, without those that are finished and without the closures and
\* the clocks that nothing reads
Settle(c, sref, aref, n) ==
    [a \in Calls |->
        LET r == IF c[a].pc \in {"aborted", "closed"} THEN Returned(c[a]) ELSE c[a]
        IN IF Finished(c, a, sref, aref, n) THEN NoCall
           ELSE IF ~ClockRead(c, a, n) THEN [r EXCEPT !.currentTime = 0]
           ELSE r]

\* ---------------------------------------------------------------- render
\* a state setter: the state of a component that was unmounted is not updated
\* any more and the component is not rendered again
SetState(old, new) == IF mounted THEN new ELSE old

\* useCallback(..., [voiceState.isConnected, voiceState.isConnecting, showError, stopSession]):
\* startSession is re-created only when one of the two flags changed, and the
\* handleAutoReconnect it refers to is the one of that same render.
Render(prev, vs, hi, nk) ==
    IF vs.isConnected # prev.isConnected \/ vs.isConnecting # prev.isConnecting
    THEN [isConnecting |-> vs.isConnecting, isConnected |-> vs.isConnected,
          hasInteracted |-> hi, needsApiKey |-> nk]
    ELSE prev

Rendered ==
    startSession' = IF mounted THEN Render(startSession, voiceState', hasInteracted', needsApiKey')
                    ELSE startSession

\* showError: set the message and restart the 8 s clear timer.  Every message
\* is set by showError, so the timer of errorTimeoutRef is pending whenever a
\* message is shown; once the message is gone its firing changes nothing.
showError(msg) == errorMessage' = SetState(errorMessage, msg)

\* ------------------------------------------------------------ stopSession
\* sessionRef.current.then(session => session.close()): an open session is
\* closed, a pending one is closed once its promise resolves
CloseIssued(c, s) ==
    IF s = 0 THEN c
    ELSE [c EXCEPT ![s] = IF @.pc \in {"pending", "opened"} THEN [@ EXCEPT !.closeReq = TRUE]
                          ELSE IF @.pc = "open" THEN [@ EXCEPT !.pc = "closing"]
                          ELSE @]

CloseOne(st) == IF st = "running" THEN "closed" ELSE st

CloseContexts(c, r) ==
    IF r = 0 THEN c
    ELSE [c EXCEPT ![r].inputCtx = CloseOne(@), ![r].outputCtx = CloseOne(@)]

\* whether the 'ended' event of a node that is stopped now will be dispatched,
\* c being the calls at the moment of the stop(): it is when the context of
\* the node runs, and when the node had played out before (its event is
\* queued already); a node that still plays or is scheduled on a closed
\* context never gets the event
EndedDispatched(nd, c) ==
    \/ c[nd.call].outputCtx = "running"
    \/ CurrentTime(c[nd.call]) >= nd.begin + nd.dur

\* stopSession that forgets to stop the sources
StopNodesForgotten(n, srcs, c) == n

\* sourcesRef.current.forEach(source => source.stop()), c being the calls at
\* that moment
StopNodes(n, srcs, c) ==
    [i \in Nodes |-> IF i \in srcs /\ n[i].state = "active"
                     THEN [NoNode EXCEPT !.state = "stopped", !.notify = EndedDispatched(n[i], c)]
                     ELSE n[i]]

\* what stopSession does to the refs, the session, the contexts and the
\* sources, applied to the calls c and the nodes n its caller leaves: the
\* contexts are closed (lines 56-60) before the sources are stopped (62-64)
ReleaseAll(c, n) ==
    LET closed == CloseContexts(CloseIssued(c, sessionRef), audioContextsRef)
    IN /\ calls' = Settle(closed, 0, 0, StopNodes(n, sourcesRef, closed))
       /\ sessionRef' = 0
       /\ audioContextsRef' = 0
       /\ nodes' = StopNodes(n, sourcesRef, closed)
       /\ sourcesRef' = {}

\* stopSession applied to the calls c and the nodes n its caller leaves
stopSession(c, n) ==
    /\ ReleaseAll(c, n)
    /\ voiceState' = SetState(voiceState, AllFalse)

\* ----------------------------------------------------- handleAutoReconnect
FreshTimer == CHOOSE i \in 1..(Cardinality(timers) + 1) : \A t \in timers : t.id # i

ClearTimeout(ts, id) == {t \in ts : t.id # id}

\* handleAutoReconnect without its clearTimeout
handleAutoReconnectNoClear(cb, c, ts) ==
    /\ stopSession(c, nodes)
    /\ IF cb.hasInteracted /\ ~cb.needsApiKey
       THEN /\ timers' = ts \cup {[id |-> FreshTimer, cb |-> cb]}
            /\ reconnectTimeoutRef' = FreshTimer
       ELSE /\ timers' = ts
            /\ UNCHANGED reconnectTimeoutRef

\* handleAutoReconnect of the closure cb, applied to the calls c and the
\* pending timers ts its caller leaves
handleAutoReconnect(cb, c, ts) ==
    /\ stopSession(c, nodes)
    /\ IF cb.hasInteracted /\ ~cb.needsApiKey
       THEN /\ timers' = ClearTimeout(ts, reconnectTimeoutRef) \cup {[id |-> FreshTimer, cb |-> cb]}
            /\ reconnectTimeoutRef' = FreshTimer
       ELSE /\ timers' = ClearTimeout(ts, reconnectTimeoutRef)
            /\ UNCHANGED reconnectTimeoutRef

\* the catch of startSession, lines 231-235, run by a call of the closure cb
startSessionCatch(cb, c, ts) ==
    /\ caught < MaxCaught
    /\ caught' = caught + 1
    /\ showError("Connection attempt failed. Retrying...")
    /\ handleAutoReconnect(cb, c, ts)

\* ---------------------------------------------------------- startSession
Event(op, src, res, call) == [op |-> op, src |-> src, res |-> res]

NewCall(cb, pc) == [NoCall EXCEPT !.pc = pc, !.cb = cb]

\* lines 99-105: isConnecting is set, both AudioContexts are created and
\* their resume() is awaited
WithContexts(c) == [c EXCEPT !.pc = "resume", !.inputCtx = "running", !.outputCtx = "running", !.currentTime = 0]

\* the AudioContexts of lines 101-102: made of them are constructed, the
\* constructor of the next one throws (made = 2: both are constructed); a
\* context that was constructed before the throw stays open, no ref holds it
Made == 0..2

FailedCall(c, made) == [c EXCEPT !.pc = "aborted", !.inputCtx = IF made = 1 THEN "running" ELSE "none"]

\* startSession of the closure cb up to its first await or to its return;
\* src is the caller, nk0 the value of needsApiKey and ts the pending timers
\* the caller leaves
StartSessionCall(cb, src, nk0, ts, made) ==
    IF cb.isConnecting \/ cb.isConnected
    THEN /\ needsApiKey' = SetState(needsApiKey, nk0)
         /\ timers' = ts
         /\ UNCHANGED <<hasInteracted, voiceState, errorMessage, calls, sessionRef, audioContextsRef,
                        nodes, sourcesRef, reconnectTimeoutRef, caught>>
         /\ lastEvent' = Event("start", src, "noop", 0)
    ELSE /\ hasInteracted' = SetState(hasInteracted, TRUE)
         /\ needsApiKey' = SetState(needsApiKey, FALSE)
         /\ IF env.aistudio
            THEN /\ FreshCall # 0
                 /\ calls' = [calls EXCEPT ![FreshCall] = NewCall(cb, "keycheck")]
                 /\ timers' = ts
                 /\ UNCHANGED <<voiceState, errorMessage, sessionRef, audioContextsRef, nodes,
                                sourcesRef, reconnectTimeoutRef, caught>>
                 /\ lastEvent' = Event("start", src, "keycheck", FreshCall)
            ELSE IF ~env.apiKey
            THEN /\ showError("Neural link requires a valid access key. Please configure environment.")
                 /\ voiceState' = SetState(voiceState, [voiceState EXCEPT !.isConnecting = FALSE])
                 /\ timers' = ts
                 /\ UNCHANGED <<calls, sessionRef, audioContextsRef, nodes, sourcesRef, reconnectTimeoutRef,
                                caught>>
                 /\ lastEvent' = Event("start", src, "nokey", 0)
            ELSE IF made = 2
            THEN /\ FreshCall # 0
                 /\ voiceState' = SetState(voiceState, [voiceState EXCEPT !.isConnecting = TRUE])
                 /\ calls' = [calls EXCEPT ![FreshCall] = WithContexts(NewCall(cb, "resume"))]
                 /\ timers' = ts
                 /\ UNCHANGED <<errorMessage, sessionRef, audioContextsRef, nodes, sourcesRef,
                                reconnectTimeoutRef, caught>>
                 /\ lastEvent' = Event("start", src, "connecting", FreshCall)
            ELSE /\ made = 1 => FreshCall # 0
                 /\ startSessionCatch(cb, IF made = 1
                                          THEN [calls EXCEPT ![FreshCall] = FailedCall(NewCall(cb, "resume"), made)]
                                          ELSE calls, ts)
                 /\ lastEvent' = Event("start", src, "failed", 0)

\* the start button is rendered only while neither connected nor connecting
ClickStart(made) ==
    /\ mounted
    /\ ~voiceState.isConnected /\ ~voiceState.isConnecting
    /\ StartSessionCall(startSession, "click", needsApiKey, timers, made)
    /\ UNCHANGED <<textVars, nextStartTimeRef, keyDialog, env, mounted>>
    /\ Rendered

\* the stop button is rendered only while connected and not connecting
ClickStop ==
    /\ mounted
    /\ voiceState.isConnected /\ ~voiceState.isConnecting
    /\ stopSession(calls, nodes)
    /\ lastEvent' = Event("stop", "click", "-", 0)
    /\ UNCHANGED <<textVars, errorMessage, hasInteracted, needsApiKey,
                   nextStartTimeRef, reconnectTimeoutRef, timers, keyDialog, env, mounted, caught>>
    /\ Rendered

\* handleKeySelection up to its await of openSelectKey(): the button is
\* rendered while needsApiKey holds, every click opens one more dialog
ClickReauthorize ==
    /\ mounted
    /\ needsApiKey
    /\ IF env.aistudio
       THEN /\ BagCardinality(keyDialog) < MaxDialogs
            /\ keyDialog' = keyDialog (+) SetToBag({startSession})
            /\ UNCHANGED errorMessage
            /\ lastEvent' = Event("keyDialog", "click", "opened", 0)
       ELSE /\ showError("Key management system unavailable in this environment.")
            /\ UNCHANGED keyDialog
            /\ lastEvent' = Event("keyDialog", "click", "unavailable", 0)
    /\ UNCHANGED <<voiceState, hasInteracted, needsApiKey, startSession, calls, textVars, audioVars,
                   sessionRef, reconnectTimeoutRef, timers, env, mounted, caught>>

\* the closures of the pending dialogs
Dialogs == BagToSet(keyDialog)

\* handleKeySelection after the openSelectKey() of a dialog opened by the
\* handleKeySelection of closure d resolved
KeySelected(d, made) ==
    /\ d \in Dialogs
    /\ keyDialog' = keyDialog (-) SetToBag({d})
    /\ StartSessionCall(d, "key", FALSE, timers, made)
    /\ UNCHANGED <<textVars, nextStartTimeRef, env, mounted>>
    /\ Rendered

\* the openSelectKey() of a dialog of closure d rejected: handleKeySelection
\* ends with the rejection, nothing handles it
KeyRejected(d) ==
    /\ d \in Dialogs
    /\ keyDialog' = keyDialog (-) SetToBag({d})
    /\ lastEvent' = Event("keyDialog", "-", "rejected", 0)
    /\ UNCHANGED <<uiVars, calls, textVars, audioVars, sessionRef, reconnectTimeoutRef, timers,
                   env, mounted, caught>>

\* the reconnect timer t fires: () => startSession()
ReconnectFire(t, made) ==
    /\ t \in timers
    /\ StartSessionCall(t.cb, "timer", needsApiKey, timers \ {t}, made)
    /\ UNCHANGED <<textVars, nextStartTimeRef, keyDialog, env, mounted>>
    /\ Rendered

\* await aistudio.hasSelectedApiKey() resolved with ok
KeyCheckDone(a, ok) ==
    /\ calls[a].pc = "keycheck"
    /\ IF ~ok
       THEN /\ needsApiKey' = SetState(needsApiKey, TRUE)
            /\ voiceState' = SetState(voiceState, [voiceState EXCEPT !.isConnecting = FALSE])
            /\ calls' = Settle([calls EXCEPT ![a].pc = "aborted"], sessionRef, audioContextsRef, nodes)
            /\ UNCHANGED errorMessage
            /\ lastEvent' = Event("keyCheck", "-", "unselected", a)
       ELSE IF ~env.apiKey
       THEN /\ showError("Neural link requires a valid access key. Please configure environment.")
            /\ voiceState' = SetState(voiceState, [voiceState EXCEPT !.isConnecting = FALSE])
            /\ calls' = Settle([calls EXCEPT ![a].pc = "aborted"], sessionRef, audioContextsRef, nodes)
            /\ UNCHANGED needsApiKey
            /\ lastEvent' = Event("keyCheck", "-", "nokey", a)
       ELSE /\ voiceState' = SetState(voiceState, [voiceState EXCEPT !.isConnecting = TRUE])
            /\ calls' = [calls EXCEPT ![a] = WithContexts(@)]
            /\ UNCHANGED <<needsApiKey, errorMessage>>
            /\ lastEvent' = Event("keyCheck", "-", "connecting", a)
    /\ UNCHANGED <<hasInteracted, textVars, audioVars, sessionRef, reconnectTimeoutRef, timers, keyDialog, env, mounted, caught>>
    /\ Rendered

\* await aistudio.hasSelectedApiKey() rejected: the catch of line 231
KeyCheckFail(a) ==
    /\ calls[a].pc = "keycheck"
    /\ startSessionCatch(calls[a].cb, [calls EXCEPT ![a].pc = "aborted"], timers)
    /\ lastEvent' = Event("keyCheck", "-", "rejected", a)
    /\ UNCHANGED <<hasInteracted, needsApiKey, textVars, nextStartTimeRef, keyDialog, env, mounted>>
    /\ Rendered

\* hasSelectedApiKey() resolved with true, the key is there, and a constructor
\* of lines 101-102 throws: the catch of line 231
ContextFail(a, made) ==
    /\ calls[a].pc = "keycheck"
    /\ env.apiKey
    /\ made < 2
    /\ startSessionCatch(calls[a].cb, [calls EXCEPT ![a] = FailedCall(@, made)], timers)
    /\ lastEvent' = Event("keyCheck", "-", "failed", a)
    /\ UNCHANGED <<hasInteracted, needsApiKey, textVars, nextStartTimeRef, keyDialog, env, mounted>>
    /\ Rendered

\* both resume() promises resolved: line 107
ResumeDone(a) ==
    /\ calls[a].pc = "resume"
    /\ audioContextsRef' = a
    /\ calls' = Settle([calls EXCEPT ![a].pc = "mic"], sessionRef, a, nodes)
    /\ lastEvent' = Event("resume", "-", "ok", a)
    /\ UNCHANGED <<uiVars, textVars, nextStartTimeRef, sourcesRef, nodes, sessionRef,
                   reconnectTimeoutRef, timers, keyDialog, env, mounted, caught>>

\* an exception inside the try block: the catch of line 231
ResumeFail(a) ==
    /\ calls[a].pc = "resume"
    /\ startSessionCatch(calls[a].cb, [calls EXCEPT ![a].pc = "aborted"], timers)
    /\ lastEvent' = Event("resume", "-", "failed", a)
    /\ UNCHANGED <<hasInteracted, needsApiKey, textVars, nextStartTimeRef, keyDialog, env, mounted>>
    /\ Rendered

\* getUserMedia resolved: the session is created and stored, lines 119-230
MicGranted(a) ==
    /\ calls[a].pc = "mic"
    /\ calls' = Settle([calls EXCEPT ![a].pc = "pending", ![a].mic = "live"], a, audioContextsRef, nodes)
    /\ sessionRef' = a
    /\ lastEvent' = Event("mic", "-", "granted", a)
    /\ UNCHANGED <<uiVars, textVars, audioVars, reconnectTimeoutRef, timers, keyDialog, env, mounted, caught>>

\* getUserMedia resolved and the creation of the session throws (new
\* GoogleGenAI of line 118, ai.live.connect of line 120): the catch of line 231;
\* the stream of the microphone stays live
ConnectFail(a) ==
    /\ calls[a].pc = "mic"
    /\ startSessionCatch(calls[a].cb, [calls EXCEPT ![a].pc = "aborted", ![a].mic = "live"], timers)
    /\ lastEvent' = Event("connect", "-", "failed", a)
    /\ UNCHANGED <<hasInteracted, needsApiKey, textVars, nextStartTimeRef, keyDialog, env, mounted>>
    /\ Rendered

\* getUserMedia rejected: lines 112-116
MicDenied(a) ==
    /\ calls[a].pc = "mic"
    /\ showError("Microphone access is restricted. Enable permissions for link.")
    /\ voiceState' = SetState(voiceState, [voiceState EXCEPT !.isConnecting = FALSE])
    /\ calls' = Settle([calls EXCEPT ![a].pc = "aborted"], sessionRef, audioContextsRef, nodes)
    /\ lastEvent' = Event("mic", "-", "denied", a)
    /\ UNCHANGED <<hasInteracted, needsApiKey, textVars, audioVars, sessionRef,
                   reconnectTimeoutRef, timers, keyDialog, env, mounted, caught>>
    /\ Rendered


\* ------------------------------------------------------ session callbacks
\* the capture graph of lines 132-145, built on an input context in the state
\* st: nothing checks the state, on a closed context the graph is built as
\* well but its onaudioprocess is never called
BuiltOn(st) == IF st = "running" THEN "capturing" ELSE "silent"

\* callbacks.onopen; the session promise resolves after it, before the
\* endpoint delivers a message, an error or a close of that session
OnOpen(a) ==
    /\ calls[a].pc = "pending"
    /\ voiceState' = SetState(voiceState, [voiceState EXCEPT !.isConnected = TRUE, !.isListening = TRUE, !.isConnecting = FALSE])
    /\ errorMessage' = SetState(errorMessage, "none")
    /\ transcriptionHistory' = SetState(transcriptionHistory, Append(transcriptionHistory, [role |-> "assistant", text |-> WelcomeText]))
    /\ calls' = [calls EXCEPT ![a].pc = "opened", ![a].graph = BuiltOn(calls[a].inputCtx)]
    /\ lastEvent' = Event("open", "-", "-", a)
    /\ UNCHANGED <<hasInteracted, needsApiKey, currentUserText, currentAssistantText,
                   userTextRef, assistantTextRef, audioVars, sessionRef, reconnectTimeoutRef,
                   timers, keyDialog, env, mounted, caught>>
    /\ Rendered

\* the session promise resolves: the callbacks chained on it run in the order
\* in which they were chained, among them the close of a stopSession that ran
\* while the promise was pending
Resolved(a) ==
    /\ calls[a].pc = "opened"
    /\ calls' = [calls EXCEPT ![a].pc = IF calls[a].closeReq THEN "closing" ELSE "open",
                              ![a].sent = @ \o calls[a].deferred, ![a].deferred = <<>>]
    /\ lastEvent' = Event("resolved", "-", "-", a)
    /\ UNCHANGED <<uiVars, textVars, audioVars, sessionRef, reconnectTimeoutRef, timers, keyDialog, env, mounted, caught>>

\* sessionPromise.then(session => session.sendRealtimeInput({media: pcmBlob})):
\* the callback is chained on a pending promise and runs at once on a
\* resolved one
SendNow(c, frame) == [c EXCEPT !.captured = frame, !.sent = Append(@, frame)]

SendRealtimeInput(c, frame) ==
    IF c.pc = "opened" THEN [c EXCEPT !.captured = frame, !.deferred = Append(@, frame)]
    ELSE [c EXCEPT !.captured = frame, !.sent = Append(@, frame)]

\* scriptProcessor.onaudioprocess: the graph is built by onopen, on a running
\* input context; the
\* callback runs for every frame the audio thread has produced, also for the
\* frames it produced before the input context was closed and that are
\* delivered after it; the frames of a call are numbered in the order of their
\* capture
AudioProcess(a) ==
    /\ calls[a].graph = "capturing"
    /\ calls[a].captured < MaxFrames
    /\ calls' = [calls EXCEPT ![a] = SendRealtimeInput(calls[a], calls[a].captured + 1)]
    /\ lastEvent' = Event("frame", "-", "-", a)
    /\ UNCHANGED <<uiVars, textVars, audioVars, sessionRef, reconnectTimeoutRef, timers, keyDialog, env, mounted, caught>>

Message(ot, it, tc, au, ir) ==
    [outputTranscription |-> ot, inputTranscription |-> it, turnComplete |-> tc, audio |-> au, interrupted |-> ir]

TurnEntriesAssistantFirst(uText, aText) ==
    (IF aText # "" THEN <<[role |-> "assistant", text |-> aText]>> ELSE <<>>)
    \o (IF uText # "" THEN <<[role |-> "user", text |-> uText]>> ELSE <<>>)

TurnEntries(uText, aText) ==
    (IF uText # "" THEN <<[role |-> "user", text |-> uText]>> ELSE <<>>)
    \o (IF aText # "" THEN <<[role |-> "assistant", text |-> aText]>> ELSE <<>>)

\* callbacks.onmessage up to its await of decodeAudioData (or to its end
\* when the message carries no audio)
OnMessage(a, m) ==
    /\ calls[a].pc = "open"
    /\ LET hasOut == m.outputTranscription # <<>>
           hasIn == ~hasOut /\ m.inputTranscription # <<>>
           aText == IF hasOut THEN assistantTextRef \o m.outputTranscription[1] ELSE assistantTextRef
           uText == IF hasIn THEN userTextRef \o m.inputTranscription[1] ELSE userTextRef
       IN /\ Len(aText) <= MaxText /\ Len(uText) <= MaxText
          /\ lastEvent' = [op |-> "message", src |-> IF m.turnComplete THEN "turn" ELSE "-",
                            res |-> IF uText = "" /\ aText = "" THEN "empty" ELSE "-", msg |-> m]
          /\ IF m.turnComplete
             THEN /\ transcriptionHistory' = SetState(transcriptionHistory, SliceLast(transcriptionHistory \o TurnEntries(uText, aText), HistoryLimit))
                  /\ userTextRef' = "" /\ assistantTextRef' = ""
                  /\ currentUserText' = SetState(currentUserText, "")
                  /\ currentAssistantText' = SetState(currentAssistantText, "")
             ELSE /\ UNCHANGED transcriptionHistory
                  /\ userTextRef' = uText /\ assistantTextRef' = aText
                  /\ currentUserText' = SetState(currentUserText, (IF hasIn THEN uText ELSE currentUserText))
                  /\ currentAssistantText' = SetState(currentAssistantText, (IF hasOut THEN aText ELSE currentAssistantText))
    /\ IF m.audio > 0
       THEN /\ FreshNode # 0
            /\ voiceState' = SetState(voiceState, [voiceState EXCEPT !.isSpeaking = TRUE])
            /\ nextStartTimeRef' = Max(nextStartTimeRef, CurrentTime(calls[a]))
            /\ nodes' = [nodes EXCEPT ![FreshNode] = [NoNode EXCEPT !.state = "decoding", !.call = a,
                                                      !.dur = m.audio, !.interrupted = m.interrupted]]
            /\ UNCHANGED sourcesRef
       ELSE IF m.interrupted
       THEN /\ nodes' = StopNodes(nodes, sourcesRef, calls)
            /\ sourcesRef' = {}
            /\ nextStartTimeRef' = 0
            /\ voiceState' = SetState(voiceState, [voiceState EXCEPT !.isSpeaking = FALSE])
       ELSE UNCHANGED <<nodes, sourcesRef, nextStartTimeRef, voiceState>>
    /\ calls' = Settle(calls, sessionRef, audioContextsRef, nodes')
    /\ UNCHANGED <<errorMessage, hasInteracted, needsApiKey, sessionRef,
                   audioContextsRef, reconnectTimeoutRef, timers, keyDialog, env, mounted, caught>>
    /\ Rendered

\* the rest of onmessage once decodeAudioData resolved: lines 181-198
DecodeDone(n) ==
    /\ nodes[n].state = "decoding"
    /\ LET scheduled == [nodes EXCEPT ![n].state = "active", ![n].start = nextStartTimeRef,
                                      ![n].interrupted = FALSE,
                                    ![n].begin = Max(nextStartTimeRef, CurrentTime(calls[nodes[n].call]))]
       IN IF nodes[n].interrupted
          THEN /\ nodes' = StopNodes(scheduled, sourcesRef \cup {n}, calls)
               /\ sourcesRef' = {}
               /\ nextStartTimeRef' = 0
               /\ voiceState' = SetState(voiceState, [voiceState EXCEPT !.isSpeaking = FALSE])
          ELSE /\ nodes' = scheduled
               /\ sourcesRef' = sourcesRef \cup {n}
               /\ nextStartTimeRef' = nextStartTimeRef + nodes[n].dur
               /\ UNCHANGED voiceState
    /\ lastEvent' = Event("decoded", "-", "-", n)
    /\ calls' = Settle(calls, sessionRef, audioContextsRef, nodes')
    /\ UNCHANGED <<errorMessage, hasInteracted, needsApiKey, textVars,
                   sessionRef, audioContextsRef, reconnectTimeoutRef, timers, keyDialog, env, mounted, caught>>
    /\ Rendered

\* the node played to its end on a running context, or was stopped and its
\* 'ended' event is dispatched
HasEnded(n) ==
    \/ nodes[n].state = "stopped" /\ nodes[n].notify
    \/ /\ nodes[n].state = "active"
       /\ calls[nodes[n].call].outputCtx = "running"
       /\ CurrentTime(calls[nodes[n].call]) >= nodes[n].begin + nodes[n].dur

\* if (sourcesRef.current.size === 0) setVoiceState(prev => ({...prev, isSpeaking: false}))
SpeakingKept(vs, src) == vs

SpeakingAfter(vs, src) == IF src = {} THEN [vs EXCEPT !.isSpeaking = FALSE] ELSE vs

\* the 'ended' listener of a source node: lines 184-187
Ended(n) ==
    /\ HasEnded(n)
    /\ nodes' = [nodes EXCEPT ![n] = [NoNode EXCEPT !.state = "ended"]]
    /\ sourcesRef' = sourcesRef \ {n}
    /\ voiceState' = SetState(voiceState, SpeakingAfter(voiceState, sourcesRef \ {n}))
    /\ lastEvent' = Event("ended", "-", "-", n)
    /\ calls' = Settle(calls, sessionRef, audioContextsRef, nodes')
    /\ UNCHANGED <<errorMessage, hasInteracted, needsApiKey, textVars,
                   sessionRef, audioContextsRef, nextStartTimeRef, reconnectTimeoutRef, timers,
                   keyDialog, env, mounted, caught>>
    /\ Rendered

\* callbacks.onerror; invalidKey says whether the message names an invalid key
OnError(a, invalidKey) ==
    /\ calls[a].pc \in {"pending", "open"}
    /\ IF invalidKey
       THEN /\ showError("Link rejected. Key might be invalid or from unpaid project.")
            /\ needsApiKey' = SetState(needsApiKey, TRUE)
            /\ stopSession([calls EXCEPT ![a].pc = "errored"], nodes)
            /\ UNCHANGED <<timers, reconnectTimeoutRef>>
            /\ lastEvent' = Event("error", "-", "key", a)
       ELSE /\ showError("Neural bridge sync failure. Attempting recalibration...")
            /\ handleAutoReconnect(calls[a].cb, [calls EXCEPT ![a].pc = "errored"], timers)
            /\ UNCHANGED needsApiKey
            /\ lastEvent' = Event("error", "-", "transient", a)
    /\ UNCHANGED <<hasInteracted, textVars, nextStartTimeRef, keyDialog, env, mounted, caught>>
    /\ Rendered

\* callbacks.onclose with e.wasClean
OnClose(a, wasClean) ==
    /\ calls[a].pc \in {"open", "closing", "errored"}
    /\ IF wasClean
       THEN /\ calls' = Settle([calls EXCEPT ![a].pc = "closed"], sessionRef, audioContextsRef, nodes)
            /\ UNCHANGED <<voiceState, errorMessage, sessionRef, audioVars,
                           timers, reconnectTimeoutRef>>
            /\ lastEvent' = Event("close", "-", "clean", a)
       ELSE /\ showError("Spatial Link unexpectedly terminated.")
            /\ handleAutoReconnect(calls[a].cb, [calls EXCEPT ![a].pc = "closed"], timers)
            /\ UNCHANGED nextStartTimeRef
            /\ lastEvent' = Event("close", "-", "unclean", a)
    /\ UNCHANGED <<hasInteracted, needsApiKey, textVars, keyDialog, env, mounted, caught>>
    /\ Rendered

\* the 8 s timer of showError fires
ErrorTimeout ==
    /\ mounted
    /\ errorMessage # "none"
    /\ errorMessage' = SetState(errorMessage, "none")
    /\ lastEvent' = Event("errorTimeout", "-", "-", 0)
    /\ UNCHANGED <<voiceState, hasInteracted, needsApiKey, startSession, textVars, audioVars, calls,
                   sessionRef, reconnectTimeoutRef, timers, keyDialog, env, mounted, caught>>

\* the cleanup of the effect of lines 246-252, run when App is unmounted: the
\* state setter of its stopSession changes nothing any more, the timer of
\* reconnectTimeoutRef and the timer of the error message are cleared
Unmount ==
    /\ mounted
    /\ mounted' = FALSE
    /\ ReleaseAll(calls, nodes)
    /\ timers' = ClearTimeout(timers, reconnectTimeoutRef)
    /\ lastEvent' = Event("unmount", "-", "-", 0)
    /\ UNCHANGED <<uiVars, textVars, nextStartTimeRef, reconnectTimeoutRef, keyDialog, env, caught>>

\* the clocks that advance and that something reads
Observed(a) == calls[a].outputCtx = "running" /\ ClockRead(calls, a, nodes)

\* time passes: the clock of every running output context advances
Tick ==
    /\ \E a \in Calls : Observed(a)
    /\ \A a \in Calls : Observed(a) => calls[a].currentTime < MaxTime
    /\ calls' = [a \in Calls |-> IF Observed(a) THEN [calls[a] EXCEPT !.currentTime = @ + 1] ELSE calls[a]]
    /\ lastEvent' = Event("tick", "-", "-", 0)
    /\ UNCHANGED <<uiVars, textVars, audioVars, sessionRef, reconnectTimeoutRef, timers, keyDialog, env, mounted, caught>>

\* ------------------------------------------------------------------ Init
Init ==
    /\ voiceState = AllFalse
    /\ transcriptionHistory = <<>>
    /\ currentUserText = "" /\ currentAssistantText = ""
    /\ errorMessage = "none"
    /\ hasInteracted = FALSE /\ needsApiKey = FALSE
    /\ sessionRef = 0 /\ audioContextsRef = 0
    /\ nextStartTimeRef = 0
    /\ sourcesRef = {}
    /\ reconnectTimeoutRef = 0
    /\ userTextRef = "" /\ assistantTextRef = ""
    /\ startSession = Render([isConnecting |-> TRUE, isConnected |-> TRUE, hasInteracted |-> FALSE,
                              needsApiKey |-> FALSE], AllFalse, FALSE, FALSE)
    /\ calls = [a \in Calls |-> NoCall]
    /\ nodes = [n \in Nodes |-> NoNode]
    /\ timers = {}
    /\ keyDialog = EmptyBag
    /\ env \in [aistudio : BOOLEAN, apiKey : BOOLEAN]
    /\ mounted = TRUE
    /\ caught = 0
    /\ lastEvent = Event("init", "-", "-", 0)

\* --------------------------------------------------------- specifications
\* the calls that have not returned and the sessions that await their close event
InProgress == Cardinality({a \in Calls : calls[a].pc \notin {"unused", "aborted", "closed"}})

\* Spec: the session lifecycle with up to MaxCalls calls in progress, observed
\* until App is unmounted
Next ==
    \/ \E made \in Made : mounted /\ ClickStart(made)
    \/ \E d \in Dialogs, made \in Made : mounted /\ KeySelected(d, made)
    \/ \E d \in Dialogs : mounted /\ KeyRejected(d)
    \/ \E t \in timers, made \in Made : mounted /\ ReconnectFire(t, made)
    \/ ClickStop
    \/ ClickReauthorize
    \/ \E a \in Calls, ok \in BOOLEAN : mounted /\ KeyCheckDone(a, ok)
    \/ \E a \in Calls : mounted /\ KeyCheckFail(a)
    \/ \E a \in Calls, made \in Made : mounted /\ ContextFail(a, made)
    \/ \E a \in Calls : mounted /\ ResumeDone(a)
    \/ \E a \in Calls : mounted /\ ResumeFail(a)
    \/ \E a \in Calls : mounted /\ MicGranted(a)
    \/ \E a \in Calls : mounted /\ MicDenied(a)
    \/ \E a \in Calls : mounted /\ ConnectFail(a)
    \/ Unmount
    \/ \E a \in Calls : mounted /\ Len(transcriptionHistory) < MaxOpens /\ OnOpen(a)
    \/ \E a \in Calls : mounted /\ Resolved(a)
    \/ \E a \in Calls, k \in BOOLEAN : mounted /\ OnError(a, k)
    \/ \E a \in Calls, w \in BOOLEAN : mounted /\ OnClose(a, w)
    \/ ErrorTimeout

Spec == Init /\ [][Next]_vars

\* SpecSerial: the session lifecycle in which a start is requested only when
\* no call is in progress, observed until App is unmounted
NextSerial ==
    \/ \E made \in Made : mounted /\ InProgress = 0 /\ ClickStart(made)
    \/ \E d \in Dialogs, made \in Made : mounted /\ InProgress = 0 /\ KeySelected(d, made)
    \/ \E d \in Dialogs : mounted /\ KeyRejected(d)
    \/ \E t \in timers, made \in Made : mounted /\ InProgress = 0 /\ ReconnectFire(t, made)
    \/ ClickStop
    \/ ClickReauthorize
    \/ \E a \in Calls, ok \in BOOLEAN : mounted /\ KeyCheckDone(a, ok)
    \/ \E a \in Calls : mounted /\ KeyCheckFail(a)
    \/ \E a \in Calls, made \in Made : mounted /\ ContextFail(a, made)
    \/ \E a \in Calls : mounted /\ ResumeDone(a)
    \/ \E a \in Calls : mounted /\ ResumeFail(a)
    \/ \E a \in Calls : mounted /\ MicGranted(a)
    \/ \E a \in Calls : mounted /\ MicDenied(a)
    \/ \E a \in Calls : mounted /\ ConnectFail(a)
    \/ Unmount
    \/ \E a \in Calls : mounted /\ Len(transcriptionHistory) < MaxOpens /\ OnOpen(a)
    \/ \E a \in Calls : mounted /\ Resolved(a)
    \/ \E a \in Calls, k \in BOOLEAN : mounted /\ OnError(a, k)
    \/ \E a \in Calls, w \in BOOLEAN : mounted /\ OnClose(a, w)
    \/ ErrorTimeout

SpecSerial == Init /\ [][NextSerial]_vars

\* SpecUnmount: the page without window.aistudio and with an API key; sessions
\* are started one at a time, fail, are stopped or are closed by the endpoint,
\* the reconnect timers fire, and App is unmounted at any moment: the handlers
\* that are pending then still run, their state setters change nothing
NextUnmount ==
    \/ InProgress = 0 /\ ClickStart(2)
    \/ ClickStop
    \/ \E t \in timers : InProgress = 0 /\ ReconnectFire(t, 2)
    \/ \E a \in Calls : ResumeDone(a)
    \/ \E a \in Calls : ResumeFail(a)
    \/ \E a \in Calls : MicGranted(a)
    \/ \E a \in Calls : MicDenied(a)
    \/ \E a \in Calls : OnOpen(a)
    \/ \E a \in Calls : Resolved(a)
    \/ \E a \in Calls, k \in BOOLEAN : OnError(a, k)
    \/ \E a \in Calls, w \in BOOLEAN : OnClose(a, w)
    \/ Unmount

SpecUnmount == Init /\ env = [aistudio |-> FALSE, apiKey |-> TRUE] /\ [][NextUnmount]_vars

\* the inbound messages of the playback specification: audio, interruption
PlaybackMessages == {Message(<<>>, <<>>, FALSE, 1, FALSE), Message(<<>>, <<>>, FALSE, 0, TRUE)}

\* SpecPlayback: a page without window.aistudio, with an API key and with the
\* microphone granted; sessions are started by hand, one at a time, and
\* receive audio and interruptions while time passes; they end by the stop
\* button, by an error or by a close of the endpoint.  The reconnect timer
\* and the timer of the error message do not fire within the time observed,
\* which covers fewer than MaxNodes segments and MaxTime - 2 ticks.
InitPlayback == Init /\ env = [aistudio |-> FALSE, apiKey |-> TRUE]

NextPlayback ==
    \/ InProgress = 0 /\ ClickStart(2)
    \/ ClickStop
    \/ \E a \in Calls : ResumeDone(a)
    \/ \E a \in Calls : MicGranted(a)
    \/ \E a \in Calls : Len(transcriptionHistory) < MaxOpens /\ OnOpen(a)
    \/ \E a \in Calls : Resolved(a)
    \/ \E a \in Calls, k \in BOOLEAN : OnError(a, k)
    \/ \E a \in Calls, w \in BOOLEAN : OnClose(a, w)
    \/ \E a \in Calls, m \in PlaybackMessages : (m.audio > 0 => FreshNode < MaxNodes) /\ OnMessage(a, m)
    \/ \E n \in Nodes : DecodeDone(n)
    \/ \E n \in Nodes : Ended(n)
    \/ (\A a \in Calls : Observed(a) => calls[a].currentTime < MaxTime - 2) /\ Tick

SpecPlayback == InitPlayback /\ [][NextPlayback]_vars

\* the time the segments that are being decoded will take on the timeline
RECURSIVE Durations(_)
Durations(S) == IF S = {} THEN 0
                ELSE LET n == CHOOSE i \in S : TRUE
                     IN (IF nodes[n].state = "decoding" THEN nodes[n].dur ELSE 0) + Durations(S \ {n})

\* the segments being decoded and one more of duration d all end within
\* MaxTime if they are scheduled when the clock of call a shows t
FitsHorizon(a, t, d) == Max(nextStartTimeRef, t) + Durations(Nodes) + d <= MaxTime

\* SpecRestart: the page of SpecPlayback; sessions are started and stopped by
\* hand, one at a time, and receive audio while time passes
NextRestart ==
    \/ InProgress = 0 /\ ClickStart(2)
    \/ ClickStop
    \/ \E a \in Calls : ResumeDone(a)
    \/ \E a \in Calls : MicGranted(a)
    \/ \E a \in Calls : Len(transcriptionHistory) < MaxOpens /\ OnOpen(a)
    \/ \E a \in Calls : Resolved(a)
    \/ \E a \in Calls : OnClose(a, TRUE)
    \/ \E a \in Calls : OnMessage(a, Message(<<>>, <<>>, FALSE, 1, FALSE))
    \/ \E n \in Nodes : DecodeDone(n)
    \/ \E n \in Nodes : Ended(n)
    \/ (\A a \in Calls : Observed(a) => calls[a].currentTime < MaxTime - 1) /\ Tick

SpecRestart == InitPlayback /\ [][NextRestart]_vars

\* SpecFrames: the page of SpecPlayback; sessions are started and stopped by
\* hand, also while the session before awaits its close, fail or are closed
\* by the endpoint, and capture up to MaxFrames microphone frames each
NextFrames ==
    \/ ClickStart(2)
    \/ ClickStop
    \/ \E a \in Calls : ResumeDone(a)
    \/ \E a \in Calls : MicGranted(a)
    \/ \E a \in Calls : Len(transcriptionHistory) < MaxOpens /\ OnOpen(a)
    \/ \E a \in Calls : Resolved(a)
    \/ \E a \in Calls : AudioProcess(a)
    \/ \E a \in Calls, k \in BOOLEAN : OnError(a, k)
    \/ \E a \in Calls, w \in BOOLEAN : OnClose(a, w)

SpecFrames == InitPlayback /\ [][NextFrames]_vars

\* SpecSchedule: the page of SpecPlayback with one session that stays open and
\* receives audio and interruptions while time passes; every segment received
\* can be played to its end within MaxTime
NextSchedule ==
    \/ InProgress = 0 /\ ClickStart(2)
    \/ \E a \in Calls : ResumeDone(a)
    \/ \E a \in Calls : MicGranted(a)
    \/ \E a \in Calls : Len(transcriptionHistory) < MaxOpens /\ OnOpen(a)
    \/ \E a \in Calls : Resolved(a)
    \/ \E a \in Calls, m \in PlaybackMessages :
          /\ m.audio > 0 => FitsHorizon(a, CurrentTime(calls[a]), m.audio)
          /\ OnMessage(a, m)
    \/ \E n \in Nodes : DecodeDone(n)
    \/ \E n \in Nodes : Ended(n)
    \/ (\A a \in Calls : Observed(a) => FitsHorizon(a, CurrentTime(calls[a]) + 1, 0)) /\ Tick

SpecSchedule == InitPlayback /\ [][NextSchedule]_vars

\* FairSchedule: SpecSchedule in which the browser does its part: the promise
\* of decodeAudioData resolves, the clock of a running context advances and
\* the 'ended' event of a source that has played to its end is dispatched
FairSchedule ==
    /\ SpecSchedule
    /\ WF_vars(\E n \in Nodes : DecodeDone(n))
    /\ WF_vars(\E n \in Nodes : Ended(n))
    /\ WF_vars((\A a \in Calls : Observed(a) => FitsHorizon(a, CurrentTime(calls[a]) + 1, 0)) /\ Tick)

\* the inbound messages of the text specification: fragments of the user,
\* a fragment of the assistant, one of each in one message, a turn-complete
TextMessages ==
    {Message(<<>>, <<"a">>, FALSE, 0, FALSE), Message(<<>>, <<"b">>, FALSE, 0, FALSE),
     Message(<<"c">>, <<>>, FALSE, 0, FALSE), Message(<<"c">>, <<"a">>, FALSE, 0, FALSE),
     Message(<<>>, <<>>, TRUE, 0, FALSE)}

\* SpecText: the page of SpecPlayback; sessions are started and stopped by
\* hand, one at a time, and receive transcription fragments of at most MaxText
\* characters per turn; turns are completed while the history holds fewer
\* than MaxOpens entries
NextText ==
    \/ InProgress = 0 /\ ClickStart(2)
    \/ ClickStop
    \/ \E a \in Calls : ResumeDone(a)
    \/ \E a \in Calls : MicGranted(a)
    \/ \E a \in Calls : Len(transcriptionHistory) < MaxOpens /\ OnOpen(a)
    \/ \E a \in Calls : Resolved(a)
    \/ \E a \in Calls : OnClose(a, TRUE)
    \/ \E a \in Calls, m \in TextMessages :
          /\ m.turnComplete => Len(transcriptionHistory) < MaxOpens
          /\ OnMessage(a, m)

SpecText == InitPlayback /\ [][NextText]_vars

\* the inbound messages of the history specification: a turn of the user, a
\* turn of the assistant, a turn without text
HistoryMessages ==
    {Message(<<>>, <<"a">>, TRUE, 0, FALSE), Message(<<"b">>, <<>>, TRUE, 0, FALSE),
     Message(<<>>, <<>>, TRUE, 0, FALSE)}

\* SpecHistory: the page of SpecPlayback; sessions are started and stopped by
\* hand, one at a time, and receive completed turns until the history is full
\* and a session opens on the full history
NextHistory ==
    \/ InProgress = 0 /\ ClickStart(2)
    \/ ClickStop
    \/ \E a \in Calls : ResumeDone(a)
    \/ \E a \in Calls : MicGranted(a)
    \/ \E a \in Calls : Len(transcriptionHistory) < HistoryLimit + MaxOpens - 1 /\ OnOpen(a)
    \/ \E a \in Calls : Resolved(a)
    \/ \E a \in Calls : OnClose(a, TRUE)
    \/ \E a \in Calls, m \in HistoryMessages : OnMessage(a, m)

SpecHistory == InitPlayback /\ [][NextHistory]_vars

\* ------------------------------------------------------------- the steps
\* the handler that made the step (every handler records itself in lastEvent)
\* of the mounted component
StartStep == mounted' /\ lastEvent'.op = "start"
ManualStep == mounted' /\ lastEvent'.src = "click" /\ lastEvent'.op \in {"start", "stop"}
TimerStep == mounted' /\ lastEvent'.op = "start" /\ lastEvent'.src = "timer"
OpenStep == mounted' /\ lastEvent'.op = "open"
KeyErrorStep == mounted' /\ lastEvent'.op = "error" /\ lastEvent'.res = "key"
\* onmessage processed a turn-complete signal; with both accumulators empty
TurnStep == lastEvent'.op = "message" /\ lastEvent'.src = "turn"
EmptyTurnStep == TurnStep /\ lastEvent'.res = "empty"
\* onmessage processed an interruption signal without audio (the flush runs
\* within the step)
Flushed == lastEvent.op = "message" /\ lastEvent.msg.interrupted /\ lastEvent.msg.audio = 0
FlushStep == Flushed'
\* the continuation of onmessage started a source node
ScheduleStep == lastEvent'.op = "decoded"
\* the 'ended' listener of a source node ran
EndedStep == lastEvent'.op = "ended"
\* onmessage received an audio payload
AudioStep == lastEvent'.op = "message" /\ lastEvent'.msg.audio > 0
\* callbacks.onclose ran
CloseStep == mounted' /\ lastEvent'.op = "close"
\* the three places that call handleAutoReconnect: onerror, onclose and the
\* catch of startSession
TransientStep ==
    /\ mounted'
    /\ \/ lastEvent'.op = "error" /\ lastEvent'.res = "transient"
       \/ lastEvent'.op = "close" /\ lastEvent'.res = "unclean"
       \/ lastEvent'.op \in {"start", "keyCheck", "resume", "connect"} /\ lastEvent'.res = "failed"
       \/ lastEvent'.op = "keyCheck" /\ lastEvent'.res = "rejected"
\* every handler that runs stopSession
StopStep == TransientStep \/ KeyErrorStep \/ (mounted' /\ lastEvent'.op = "stop")
\* the early returns of startSession
AbortStep ==
    /\ mounted'
    /\ \/ lastEvent'.op = "mic" /\ lastEvent'.res = "denied"
       \/ lastEvent'.op = "keyCheck" /\ lastEvent'.res \in {"unselected", "nokey"}
       \/ lastEvent'.op = "start" /\ lastEvent'.res = "nokey"

\* ---------------------------------------------------------------- claims
OpenSessions == {a \in Calls : calls[a].pc \in {"opened", "open"}}

\* C1: at most one remote session is open at any time.
C1_SingleLiveSession == Cardinality(OpenSessions) <= 1

\* C2: at most one reconnect timer is pending at any time; an abnormal
\* termination cancels the timer that was pending, so that of two such events
\* within the delay only the later one's timer is left; and when a timer fires
\* no other timer is left to fire.
C2_ReconnectDebounce ==
    /\ [](Cardinality(timers) <= 1)
    /\ [][TransientStep => timers' \cap timers = {}]_vars
    /\ [][TimerStep => timers' \cap timers = {}]_vars

\* a second abnormal termination arrived while the timer of the first one was
\* pending: the timer it scheduled got the id 2 because id 1 was taken
C2_Witness == lastEvent.op = "close" /\ lastEvent.res = "unclean" /\ \E t \in timers : t.id = 2

\* C3: a manual start or stop cancels the pending reconnect timer, so that no
\* timer is left to fire after it.
C3_ManualCancelsReconnect == [][ManualStep => timers' \cap timers = {}]_vars

\* C4: a start request made while the session is connecting or open, or while
\* an earlier start request is still checking the credential, changes nothing.
C4_StartIdempotent ==
    [][(StartStep /\ (voiceState.isConnecting \/ voiceState.isConnected
                      \/ \E a \in Calls : calls[a].pc = "keycheck"))
        => UNCHANGED <<calls, voiceState, sessionRef, audioContextsRef>>]_vars

\* C5: an invalid-credential error sets needsApiKey and stops the session, and
\* while needsApiKey holds no reconnection is scheduled and no timer fires.
C5_NoReconnectWhileReauthorizing ==
    /\ [][KeyErrorStep => needsApiKey' /\ voiceState' = AllFalse /\ sessionRef' = 0]_vars
    /\ [][needsApiKey => (timers' \subseteq timers /\ ~TimerStep)]_vars

\* C6: a transient failure stops the session and, when the user has started a
\* session before and no re-authorization is needed, leaves exactly one
\* reconnect timer pending.
C6_TransientSchedulesReconnect ==
    [][TransientStep => /\ voiceState' = AllFalse /\ sessionRef' = 0
                        /\ (hasInteracted /\ ~needsApiKey) => Cardinality(timers') = 1]_vars

\* C7: after a microphone denial or a missing credential isConnecting and
\* isConnected are false, a message or the re-authorization state is shown, no
\* session was created and no reconnection was scheduled.
C7_AbortWithoutReconnect ==
    [][AbortStep => /\ ~voiceState'.isConnecting /\ ~voiceState'.isConnected
                    /\ (errorMessage' # "none" \/ needsApiKey')
                    /\ sessionRef' = sessionRef
                    /\ timers' \subseteq timers]_vars

\* C8: isListening and isSpeaking only while isConnected, and isConnecting
\* and isConnected never together.
C8_VoiceStateConsistent ==
    /\ voiceState.isListening => voiceState.isConnected
    /\ voiceState.isSpeaking => voiceState.isConnected
    /\ ~(voiceState.isConnecting /\ voiceState.isConnected)

\* C9: an open acknowledgement that arrives after stopSession ran during the
\* connection attempt (only stopSession clears the context reference, which
\* the attempt had set before it asked for the microphone) does not make the
\* session connected.
C9_StopWhileConnecting ==
    [][(OpenStep /\ audioContextsRef = 0) => ~voiceState'.isConnected]_vars

\* C10: when stopSession has run, the four flags are false, no source is
\* active and every source that was active is stopped, the session reference
\* is cleared and the session it held is closed (or to be closed as soon as
\* its promise resolves), the context reference is cleared and both contexts
\* it held are closed.
C10_StopClearsEverything ==
    [][StopStep => /\ voiceState' = AllFalse
                   /\ sourcesRef' = {}
                   /\ \A n \in sourcesRef : nodes'[n].state = "stopped"
                   /\ sessionRef' = 0
                   /\ sessionRef # 0 => /\ calls'[sessionRef].pc # "open"
                                        /\ calls'[sessionRef].pc \in {"pending", "opened"}
                                             => calls'[sessionRef].closeReq
                   /\ audioContextsRef' = 0
                   /\ audioContextsRef # 0 => /\ calls'[audioContextsRef].inputCtx # "running"
                                              /\ calls'[audioContextsRef].outputCtx # "running"]_vars

\* the stop button was pressed while a source was playing
C10_Witness == lastEvent.op = "stop" /\ \E n \in Nodes : nodes[n].state = "stopped"

\* C11: the history holds at most HistoryLimit entries, and every step that
\* changes it appends at most two entries and keeps, in their order, the most
\* recent HistoryLimit entries of the result.
C11_HistoryBounded ==
    /\ [](Len(transcriptionHistory) <= HistoryLimit)
    /\ [][\E j \in 0..2 :
             /\ j <= Len(transcriptionHistory')
             /\ transcriptionHistory' =
                    SliceLast(transcriptionHistory
                              \o SubSeq(transcriptionHistory', Len(transcriptionHistory') - j + 1,
                                        Len(transcriptionHistory')), HistoryLimit)]_vars

\* C13: a turn-complete signal processed while both accumulators are empty
\* leaves the history exactly as it was, and no history entry has empty text.
C13_EmptyTurnNoOp ==
    /\ [](\A i \in 1..Len(transcriptionHistory) : transcriptionHistory[i].text # "")
    /\ [][EmptyTurnStep => transcriptionHistory' = transcriptionHistory]_vars

\* the text of the fragment a message carries for one role
Fragment(f) == IF f = <<>> THEN "" ELSE f[1]

\* C12: a turn-complete signal appends a user entry with the accumulated user
\* text if that text is not empty, then an assistant entry with the
\* accumulated assistant text if that text is not empty, keeps the last
\* HistoryLimit entries, and leaves both accumulators and both previews empty.
C12_TurnComplete ==
    [][TurnStep =>
         LET uText == userTextRef \o Fragment(lastEvent'.msg.inputTranscription)
             aText == assistantTextRef \o Fragment(lastEvent'.msg.outputTranscription)
             both == <<[role |-> "user", text |-> uText], [role |-> "assistant", text |-> aText]>>
             appended == SelectSeq(both, LAMBDA e : e.text # "")
         IN /\ transcriptionHistory' = SliceLast(transcriptionHistory \o appended, HistoryLimit)
            /\ userTextRef' = "" /\ assistantTextRef' = ""
            /\ currentUserText' = "" /\ currentAssistantText' = ""]_vars

\* the fragments "a" and "b" of the user and a fragment of the assistant were
\* received and the turn was completed
C12_Witness ==
    /\ lastEvent.op = "message" /\ lastEvent.src = "turn"
    /\ Len(transcriptionHistory) >= 2
    /\ SubSeq(transcriptionHistory, Len(transcriptionHistory) - 1, Len(transcriptionHistory))
         = <<[role |-> "user", text |-> "ab"], [role |-> "assistant", text |-> "c"]>>
    /\ userTextRef = "" /\ currentUserText = ""

\* C19: every message without a turn-complete signal appends each fragment it
\* carries to the accumulator of its role, and each preview equals its
\* accumulator.
C19_FragmentsAccumulate ==
    /\ [](currentUserText = userTextRef /\ currentAssistantText = assistantTextRef)
    /\ [][(lastEvent'.op = "message" /\ ~TurnStep) =>
             /\ userTextRef' = userTextRef \o Fragment(lastEvent'.msg.inputTranscription)
             /\ assistantTextRef' = assistantTextRef \o Fragment(lastEvent'.msg.outputTranscription)]_vars

\* C14: (nodes are numbered in the order in which their payloads were
\* received) two segments of one session received one after the other and both
\* scheduled, none of them stopped by an interruption, do not overlap on the
\* timeline: the later one starts at or after the end of the earlier one, and
\* exactly at its end while the earlier one has not finished playing.
C14_ScheduledInOrder ==
    \A n \in Nodes \ {1} :
        (/\ nodes[n - 1].state = "active" /\ nodes[n].state = "active"
         /\ nodes[n - 1].call = nodes[n].call)
        => /\ nodes[n].start >= nodes[n - 1].start + nodes[n - 1].dur
           /\ ~HasEnded(n - 1) => nodes[n].start = nodes[n - 1].start + nodes[n - 1].dur

\* C15: when an interruption signal has been processed the active set is
\* empty, every segment that was active is stopped, the cursor is zero and
\* isSpeaking is false; when no segment was active the interruption changes
\* nothing of the playback state.
C15_Flush ==
    [][FlushStep =>
         /\ sourcesRef' = {}
         /\ \A n \in sourcesRef : nodes'[n].state = "stopped"
         /\ \A n \in Nodes : nodes'[n].state # "active"
         /\ nextStartTimeRef' = 0
         /\ ~voiceState'.isSpeaking
         /\ sourcesRef = {} => UNCHANGED <<nodes, sourcesRef, nextStartTimeRef, voiceState>>]_vars

\* C16: a segment scheduled right after an interruption was processed (its
\* payload was received before the interruption, its decoding finished after
\* it) is started at or after the time the clock of its output context shows.
C16_StartNotInPast ==
    [][(Flushed /\ ScheduleStep) =>
         \A n \in Nodes :
             (nodes[n].state = "decoding" /\ nodes'[n].state # "decoding")
             => nodes'[n].start >= CurrentTime(calls[nodes[n].call])]_vars

\* C18: the 'ended' listener removes its segment from the active set and, if
\* the set is empty then, sets isSpeaking to false; and whenever isSpeaking
\* is true it is false again later, once the segments received have ended.
C18_EndedClearsSpeaking ==
    /\ [][EndedStep =>
            \A n \in Nodes :
                (nodes[n].state # "ended" /\ nodes'[n].state = "ended")
                => /\ sourcesRef' = sourcesRef \ {n}
                   /\ sourcesRef' = {} => ~voiceState'.isSpeaking
                   /\ sourcesRef' # {} => voiceState'.isSpeaking = voiceState.isSpeaking]_vars
    /\ (voiceState.isSpeaking ~> ~voiceState.isSpeaking)

\* two segments were played and the second has just ended
C18_Witness ==
    /\ lastEvent.op = "ended"
    /\ \A n \in Nodes : nodes[n].state = "ended"
    /\ ~voiceState.isSpeaking

\* the calls whose audio contexts are open, and those whose microphone
\* capture is open: the MediaStream of getUserMedia (line 111) lives from the
\* grant on, no handler stops its tracks
OpenContexts == {a \in Calls : calls[a].inputCtx = "running" \/ calls[a].outputCtx = "running"}
OpenMics == {a \in Calls : calls[a].mic = "live"}

\* C17: at most one pair of audio contexts and one microphone capture is
\* open, and none is open when a reconnect timer is set and when a start
\* request creates new contexts.
C17_SingleDevicePair ==
    /\ [](Cardinality(OpenContexts) <= 1 /\ Cardinality(OpenMics) <= 1)
    /\ [][(timers' \ timers # {}) => (OpenContexts' = {} /\ OpenMics' = {})]_vars
    /\ [][(StartStep /\ lastEvent'.res = "connecting") => (OpenContexts = {} /\ OpenMics = {})]_vars

\* C20: no frame is handed to a session whose promise has not resolved, a
\* frame captured before is handed over when the promise resolves, and the
\* frames handed over are all the frames captured, in the order of capture.
C20_FramesDeferredInOrder ==
    \A a \in Calls :
        /\ calls[a].pc = "opened" => calls[a].sent = <<>>
        /\ calls[a].pc # "opened" => calls[a].deferred = <<>>
        /\ calls[a].sent \o calls[a].deferred = [i \in 1..calls[a].captured |-> i]

\* two frames were captured while the promise was pending and were handed
\* over, in their order, when it resolved
C20_Witness ==
    \E a \in Calls : calls[a].pc = "open" /\ calls[a].sent = <<1, 2>> /\ lastEvent.op = "resolved"

\* C21: isSpeaking is true whenever the active set holds a segment.
C21_SpeakingWhileActive == sourcesRef # {} => voiceState.isSpeaking

\* C22: a payload received by a session of which no segment is being
\* decoded, is active or was stopped (as is the first payload of a session)
\* is scheduled at the time the clock of the session's output context shows.
C22_CursorNotCarriedOver ==
    [][AudioStep =>
         \A n \in Nodes :
             (/\ nodes[n].state = "none" /\ nodes'[n].state = "decoding"
              /\ \A i \in Nodes : nodes[i].call # nodes'[n].call)
             => nextStartTimeRef' = CurrentTime(calls[nodes'[n].call])]_vars

\* C23: both accumulators are empty when a session opens, and so the text a
\* turn-complete signal puts into the history was received by the session
\* that completes the turn.
C23_NoTextAcrossSessions ==
    [][OpenStep => (userTextRef' = "" /\ assistantTextRef' = "")]_vars

\* C24: isConnected is true only while a session is open, and when the
\* close event of a session has been handled isConnected and isListening
\* are false.
C24_ConnectedOnlyWhileLive ==
    /\ [](voiceState.isConnected => OpenSessions # {})
    /\ [][CloseStep => (~voiceState'.isConnected /\ ~voiceState'.isListening)]_vars

====
